---- MODULE Spec2Model ----
(***************************************************************************)
(* Model of the benchmark comparison engine of generate_report.py:         *)
(* calculate_statistical_significance, calculate_performance_comparison    *)
(* and create_comparison_data.                                             *)
(*                                                                         *)
(* Numbers.  Scores and score errors are drawn from small sets of          *)
(* non-negative integers.  Quotients are kept as exact fractions <<n, d>>  *)
(* in lowest terms with d > 0, so that equality of two quotients is        *)
(* equality of the pairs.  The t statistic |dt| / sqrt(p) is irrational in *)
(* general; it is kept as the exact fraction of its square, dt^2 / p, and  *)
(* compared with a critical value c by comparing the squares (both sides   *)
(* are non-negative, so the order is the same).  A fraction with a         *)
(* negative numerator stands for a negative t and is below every critical  *)
(* value.                                                                  *)
(*                                                                         *)
(* Python values.  None is the empty tuple, so that it can be compared     *)
(* with a fraction; a bool that may be None (is_significant) is the        *)
(* 1-tuple of the bool, True or False below.  A dict is a TLA+ record, and *)
(* a key the dict does not have is a field outside the record's DOMAIN.  A *)
(* call either returns a value, [exc |-> "none", ret |-> v], or raises,    *)
(* [exc |-> "<exception class>"].                                          *)
(***************************************************************************)
EXTENDS Integers, Sequences, FiniteSets, TLC

VARIABLES
    baseline,            \* the baseline BenchmarkResult handed to a calculator
    treatment,           \* the treatment BenchmarkResult handed to a calculator
    pc,                  \* position of the caller
    significance,        \* outcome of calculate_statistical_significance
    comparison,          \* outcome of calculate_performance_comparison
    baseline_results,    \* file-ordered baseline input of create_comparison_data
    treatment_results,   \* file-ordered treatment input of create_comparison_data
    comparison_data,     \* outcome of create_comparison_data
    significance_again,  \* outcome of a second
                         \* calculate_statistical_significance call
    swapped,             \* outcome of calculate_performance_comparison with
                         \* the two records exchanged
    comparison_data_again,  \* outcome of a second create_comparison_data call
    json_data,           \* content of the file handed to parse_jmh_json
    parsed,              \* outcome of parse_jmh_json
    report,              \* the generated report page: its static rows and
                         \* the state of its script
    treatment_dir,       \* the treatment directory main is run on
    details_file,        \* the details file handed to parse_details_file
    experiment_details   \* outcome of parse_details_file

vars == <<baseline, treatment, pc, significance, comparison,
          baseline_results, treatment_results, comparison_data,
          swapped, comparison_data_again, json_data, parsed, report,
          significance_again, treatment_dir, details_file,
          experiment_details>>

\* what the calculators, the builder, the loader and the report work on
calcVars == <<baseline, treatment, significance, comparison, swapped,
              significance_again>>
buildVars == <<baseline_results, treatment_results, comparison_data,
               comparison_data_again>>
loadVars == <<json_data, parsed, treatment_dir, details_file,
              experiment_details>>

-----------------------------------------------------------------------------
(* Bounds of the inputs *)

MaxScore == 3
MaxError == 1
MaxIterations == 2
MaxRecords == 2
MaxThreads == 2
MaxItems == 2
MaxLines == 3

\* the scores, errors and iteration counts of the documented scenarios
ScenarioScores == {100, 120}
ScenarioErrors == {5}
ScenarioIterations == {10}

Scores == (0..MaxScore) \cup ScenarioScores
ScoreErrors == (0..MaxError) \cup ScenarioErrors
Iterations == (0..MaxIterations) \cup ScenarioIterations
Modes == {"thrpt", "Throughput", "avgt"}

-----------------------------------------------------------------------------
(* Python values *)

None == <<>>
True == <<TRUE>>
False == <<FALSE>>
NotCalled == [exc |-> "not_called"]
Return(v) == [exc |-> "none", ret |-> v]
Raise(e) == [exc |-> e]
Returned(o) == o.exc = "none"
Raised(o) == o.exc \notin {"none", "not_called"}

Abs(x) == IF x < 0 THEN -x ELSE x

RECURSIVE GCD(_, _)
GCD(a, b) == IF b = 0 THEN a ELSE GCD(b, a % b)

\* the fraction n / d (d # 0) in lowest terms with a positive denominator
Rat(n, d) ==
    LET g == GCD(Abs(n), Abs(d))
        s == IF d < 0 THEN -1 ELSE 1
    IN  <<(s * n) \div g, (s * d) \div g>>

\* Python's n / d on numbers: a divisor of 0 raises ZeroDivisionError
TrueDiv(n, d) ==
    IF d = 0 THEN Raise("ZeroDivisionError") ELSE Return(Rat(n, d))

Zero == Rat(0, 1)
One == Rat(1, 1)
RatLt(x, y) == x[1] * y[2] < y[1] * x[2]
RatGt(x, y) == RatLt(y, x)
IsZero(x) == x[1] = 0
IsPos(x) == x[1] > 0
IsNeg(x) == x[1] < 0

\* x >= a / b for fractions x = <<n, m>> and a / b of non-negative integers,
\* whole parts first so that no product leaves the 32-bit integers
\* n / d >= a / b for n, a >= 0 and d, b > 0, compared through the
\* continued-fraction expansions, so that no product is formed and 32-bit
\* integers suffice
RECURSIVE FracGeq(_, _, _, _)
FracGeq(n, d, a, b) ==
    LET q == n \div d
        c == a \div b
        r == n % d
        s == a % b
    IN  IF q # c THEN q > c
        ELSE IF s = 0 THEN TRUE
        ELSE IF r = 0 THEN FALSE
        ELSE FracGeq(b, s, d, r)

RatGeq(x, a, b) == FracGeq(x[1], x[2], a, b)

-----------------------------------------------------------------------------
(* BenchmarkResult *)

\* primaryMetric dicts: complete, or without any key
PrimaryMetrics ==
    [score : Scores, scoreError : ScoreErrors, scoreUnit : {"ops/s"}]
        \cup {[k \in {} |-> 0]}

BenchmarkResult(bm, md, th, it, pm, ps) ==
    [benchmark |-> bm, mode |-> md, threads |-> th, forks |-> 1,
     jvm |-> "java", jvm_args |-> <<>>, jdk |-> "21", vm_name |-> "vm",
     vm_version |-> "1", warmup_iterations |-> 0, warmup_time |-> "1 s",
     measurement_iterations |-> it, measurement_time |-> "1 s",
     primary_metric |-> pm, secondary_metrics |-> <<>>, params |-> ps]

score(r) ==
    IF "score" \in DOMAIN r.primary_metric THEN r.primary_metric.score ELSE 0

score_error(r) ==
    IF "scoreError" \in DOMAIN r.primary_metric
    THEN r.primary_metric.scoreError ELSE 0

score_unit(r) ==
    IF "scoreUnit" \in DOMAIN r.primary_metric
    THEN r.primary_metric.scoreUnit ELSE ""

\* the records a calculator is called with
Records ==
    {BenchmarkResult("X", md, 1, it, pm, <<>>) :
        md \in Modes, it \in Iterations, pm \in PrimaryMetrics}

-----------------------------------------------------------------------------
(* calculate_statistical_significance *)

\* critical t values, two-tailed, df = 30, in thousandths
t_critical_05 == <<2042, 1000>>
t_critical_01 == <<2750, 1000>>

\* t >= c, for a t statistic kept as the fraction of its square
TGeq(tsq, c) == RatGeq(tsq, c[1] * c[1], c[2] * c[2])

\* mutation of InsufficientResult: insufficient data reported as not
\* significant
InsufficientResultAsFalse ==
    [is_significant |-> False, confidence_level |-> "?",
     t_statistic |-> None, insufficient_data |-> TRUE]

InsufficientResult ==
    [is_significant |-> None, confidence_level |-> "?",
     t_statistic |-> None, insufficient_data |-> TRUE]

DegenerateResult ==
    [is_significant |-> False, confidence_level |-> "N/A",
     t_statistic |-> Zero, insufficient_data |-> FALSE]

\* mutation of InsufficientSamples: the guard off by one (< 1 for <= 1)
InsufficientSamplesBelowOne(b, t) ==
    b.measurement_iterations < 1 \/ t.measurement_iterations < 1

InsufficientSamples(b, t) ==
    b.measurement_iterations <= 1 \/ t.measurement_iterations <= 1

\* mutation of PooledSeSquared: the errors added without squaring them
PooledSeNotSquared(b, t) == score_error(b) + score_error(t)

\* the square of pooled_se
PooledSeSquared(b, t) ==
    score_error(b) * score_error(b) + score_error(t) * score_error(t)

\* the square of t_stat = abs(treatment_score - baseline_score) / pooled_se
\* mutation of PooledSeIsZero: the guard left out
PooledSeNeverZero(b, t) == FALSE

\* if pooled_se == 0
PooledSeIsZero(b, t) == PooledSeSquared(b, t) = 0

\* mutation of TStat: the difference taken without abs, so that the sign of
\* t is the sign of treatment_score - baseline_score
TStatSigned(b, t) ==
    TrueDiv((score(t) - score(b)) * Abs(score(t) - score(b)),
            PooledSeSquared(b, t))

TStat(b, t) ==
    TrueDiv(Abs(score(t) - score(b)) * Abs(score(t) - score(b)),
            PooledSeSquared(b, t))

\* mutation of SignificanceLevel: strict comparisons, so that a t statistic
\* equal to a critical value falls into the tier below
SignificanceLevelStrict(t_stat) ==
    IF ~FracGeq(t_critical_01[1] * t_critical_01[1],
                t_critical_01[2] * t_critical_01[2], t_stat[1], t_stat[2])
    THEN [is_significant |-> True, confidence_level |-> "p < 0.01"]
    ELSE IF ~FracGeq(t_critical_05[1] * t_critical_05[1],
                     t_critical_05[2] * t_critical_05[2], t_stat[1], t_stat[2])
    THEN [is_significant |-> True, confidence_level |-> "p < 0.05"]
    ELSE [is_significant |-> False, confidence_level |-> "p >= 0.05"]

\* the label of the last tier is written "p >= 0.05" here; the literal at
\* line 244 holds a mis-encoded greater-or-equal sign
SignificanceLevel(t_stat) ==
    IF TGeq(t_stat, t_critical_01)
    THEN [is_significant |-> True, confidence_level |-> "p < 0.01"]
    ELSE IF TGeq(t_stat, t_critical_05)
    THEN [is_significant |-> True, confidence_level |-> "p < 0.05"]
    ELSE [is_significant |-> False, confidence_level |-> "p >= 0.05"]

\* df = min(baseline_iterations + treatment_iterations - 2, 30); the value is
\* computed at line 208 and never read
df(b, t) ==
    IF b.measurement_iterations + t.measurement_iterations - 2 < 30
    THEN b.measurement_iterations + t.measurement_iterations - 2
    ELSE 30

\* mutation of calculate_statistical_significance: the critical values are
\* those of Student's table for df = 2 when df is 2
SignificanceByDegreesOfFreedom(b, t) ==
    IF InsufficientSamples(b, t) THEN Return(InsufficientResult)
    ELSE IF PooledSeIsZero(b, t) THEN Return(DegenerateResult)
    ELSE LET t_stat == TStat(b, t)
             c05 == IF df(b, t) = 2 THEN <<4303, 1000>> ELSE t_critical_05
             c01 == IF df(b, t) = 2 THEN <<9925, 1000>> ELSE t_critical_01
         IN  IF Raised(t_stat) THEN t_stat
             ELSE Return([is_significant |->
                              IF TGeq(t_stat.ret, c05) THEN True ELSE False,
                          confidence_level |->
                              IF TGeq(t_stat.ret, c01) THEN "p < 0.01"
                              ELSE IF TGeq(t_stat.ret, c05) THEN "p < 0.05"
                              ELSE "p >= 0.05",
                          t_statistic |-> t_stat.ret,
                          insufficient_data |-> FALSE])

calculate_statistical_significance(b, t) ==
    IF InsufficientSamples(b, t) THEN Return(InsufficientResult)
    ELSE IF PooledSeIsZero(b, t) THEN Return(DegenerateResult)
    ELSE LET t_stat == TStat(b, t)
             level == SignificanceLevel(t_stat.ret)
         IN  IF Raised(t_stat) THEN t_stat
             ELSE Return([is_significant |-> level.is_significant,
                          confidence_level |-> level.confidence_level,
                          t_statistic |-> t_stat.ret,
                          insufficient_data |-> FALSE])

-----------------------------------------------------------------------------
(* calculate_performance_comparison *)

BaselineZeroResult ==
    [improvement_percent |-> Zero, improvement_ratio |-> Zero,
     speedup |-> Zero, status |-> "baseline_zero",
     statistical_significance |->
        [is_significant |-> False, confidence_level |-> "N/A",
         t_statistic |-> Zero]]

\* mutation of HigherIsBetter: the 'Throughput' spelling left out
HigherIsBetterThrptOnly(b) == b.mode = "thrpt"

HigherIsBetter(b) == b.mode \in {"thrpt", "Throughput"}

\* mutation of BaselineScoreIsZero: the guard tests < 0, so a zero baseline
\* goes on to the divisions
BaselineScoreIsNegative(b) == score(b) < 0

BaselineScoreIsZero(b) == score(b) = 0

\* ((treatment.score - baseline.score) / baseline.score) * 100, or with the
\* difference taken the other way round
ImprovementPercent(higher, b, t) ==
    LET q == IF higher THEN TrueDiv(score(t) - score(b), score(b))
             ELSE TrueDiv(score(b) - score(t), score(b))
    IN  IF Raised(q) THEN q ELSE Return(Rat(q.ret[1] * 100, q.ret[2]))

\* mutation of Speedup: the lower-is-better ratio taken as 1 + improvement
\* ratio, (2 * baseline - treatment) / baseline
SpeedupFromImprovement(higher, b, t) ==
    IF higher THEN TrueDiv(score(t), score(b))
    ELSE TrueDiv(2 * score(b) - score(t), score(b))

\* mutation of Speedup: the ratio not inverted for lower-is-better modes
SpeedupNotInverted(higher, b, t) == TrueDiv(score(t), score(b))

Speedup(higher, b, t) ==
    IF higher THEN TrueDiv(score(t), score(b))
    ELSE TrueDiv(score(b), score(t))

\* mutation of Status: a zero delta classified as improved
StatusZeroImproved(improvement_percent) ==
    IF IsNeg(improvement_percent) THEN "regressed" ELSE "improved"

Status(improvement_percent) ==
    IF IsPos(improvement_percent) THEN "improved"
    ELSE IF IsNeg(improvement_percent) THEN "regressed"
    ELSE "unchanged"

calculate_performance_comparison(b, t) ==
    IF BaselineScoreIsZero(b) THEN Return(BaselineZeroResult)
    ELSE LET higher_is_better == HigherIsBetter(b)
             improvement_percent == ImprovementPercent(higher_is_better, b, t)
             speedup == Speedup(higher_is_better, b, t)
             statistical_significance == calculate_statistical_significance(b, t)
         IN  IF Raised(improvement_percent) THEN improvement_percent
             ELSE IF Raised(speedup) THEN speedup
             ELSE IF Raised(statistical_significance)
             THEN statistical_significance
             ELSE Return([improvement_percent |-> improvement_percent.ret,
                          improvement_ratio |->
                              Rat(improvement_percent.ret[1],
                                  improvement_percent.ret[2] * 100),
                          speedup |-> speedup.ret,
                          status |-> Status(improvement_percent.ret),
                          higher_is_better |-> higher_is_better,
                          statistical_significance |->
                              statistical_significance.ret])

-----------------------------------------------------------------------------
(* The calculators called on one pair of records *)

NoResults == <<>>

\* nothing built, loaded or reported yet
NoBuild ==
    /\ baseline_results = NoResults
    /\ treatment_results = NoResults
    /\ comparison_data = NotCalled
    /\ comparison_data_again = NotCalled

NoLoad ==
    /\ json_data = None
    /\ parsed = NotCalled
    /\ treatment_dir = None
    /\ details_file = None
    /\ experiment_details = NotCalled

NoReport == report = None

NoCalc ==
    /\ baseline = None
    /\ treatment = None
    /\ significance = NotCalled
    /\ comparison = NotCalled
    /\ swapped = NotCalled
    /\ significance_again = NotCalled

InitCalc ==
    /\ baseline \in Records
    /\ treatment \in Records
    /\ pc = "start"
    /\ significance = NotCalled
    /\ comparison = NotCalled
    /\ swapped = NotCalled
    /\ significance_again = NotCalled
    /\ NoBuild /\ NoLoad /\ NoReport

\* mutation of RecordsAfterCall: the score read with
\* primary_metric.setdefault('score', 0.0), which stores the default in a
\* record that has no score
RecordsWithDefaultScore(b, t) ==
    <<IF "score" \in DOMAIN b.primary_metric THEN b
      ELSE [b EXCEPT !.primary_metric = [score |-> 0]],
      IF "score" \in DOMAIN t.primary_metric THEN t
      ELSE [t EXCEPT !.primary_metric = [score |-> 0]]>>

\* the two argument records after a calculator has returned: lines 187-294
\* and the properties of lines 40-58 read attributes and dict entries (get)
\* and assign none
RecordsAfterCall(b, t) == <<b, t>>

CallSignificance ==
    /\ pc = "start"
    /\ significance' = calculate_statistical_significance(baseline, treatment)
    /\ baseline' = RecordsAfterCall(baseline, treatment)[1]
    /\ treatment' = RecordsAfterCall(baseline, treatment)[2]
    /\ pc' = "classified"
    /\ UNCHANGED <<significance_again, comparison, swapped,
                   buildVars, loadVars, report>>

CallComparison ==
    /\ pc = "start"
    /\ comparison' = calculate_performance_comparison(baseline, treatment)
    /\ baseline' = RecordsAfterCall(baseline, treatment)[1]
    /\ treatment' = RecordsAfterCall(baseline, treatment)[2]
    /\ pc' = "compared"
    /\ UNCHANGED <<significance_again, significance, swapped,
                   buildVars, loadVars, report>>

NextCalc == CallSignificance \/ CallComparison

\* pairs whose t statistic falls in each tier and on each critical value:
\* 11 / sqrt(4^2 + 0^2) = 2.750 and 1021 / sqrt(300^2 + 400^2) = 2.042
TierScores == {0, 2, 3, 11, 1021}
TierErrors == {0, 1, 4, 300, 400, 500}
TierIterations == {2, 10, 20}

TierRecords ==
    {BenchmarkResult("X", "thrpt", 1, it,
                     [score |-> sc, scoreError |-> er, scoreUnit |-> "ops/s"],
                     <<>>) :
        it \in TierIterations, sc \in TierScores, er \in TierErrors}

InitTiers ==
    /\ baseline \in TierRecords
    /\ treatment \in TierRecords
    /\ pc = "start"
    /\ significance = NotCalled
    /\ comparison = NotCalled
    /\ swapped = NotCalled
    /\ significance_again = NotCalled
    /\ NoBuild /\ NoLoad /\ NoReport

NextTiers == CallSignificance

SpecTiers == InitTiers /\ [][NextTiers]_vars

WithIterations(r, it) == [r EXCEPT !.measurement_iterations = it]

\* a second call on the same scores and errors with other iteration counts
CallSignificanceOtherIterations ==
    /\ pc = "classified"
    /\ \E bi \in TierIterations, ti \in TierIterations :
          /\ <<bi, ti>> # <<baseline.measurement_iterations,
                            treatment.measurement_iterations>>
          /\ significance_again' =
                calculate_statistical_significance(WithIterations(baseline, bi),
                                                   WithIterations(treatment, ti))
    /\ pc' = "reclassified"
    /\ UNCHANGED <<baseline, treatment, significance, comparison, swapped,
                   buildVars, loadVars, report>>

NextIterations == CallSignificance \/ CallSignificanceOtherIterations

SpecIterations == InitTiers /\ [][NextIterations]_vars

\* a second call with the two records exchanged
CallSwappedSignificance ==
    /\ pc = "classified"
    /\ significance_again' = calculate_statistical_significance(treatment, baseline)
    /\ pc' = "exchanged"
    /\ UNCHANGED <<baseline, treatment, significance, comparison, swapped,
                   buildVars, loadVars, report>>

NextExchange == CallSignificance \/ CallSwappedSignificance

SpecExchange == InitCalc /\ [][NextExchange]_vars

Spec == InitCalc /\ [][NextCalc]_vars

\* the comparison run again with baseline and treatment exchanged
CallSwappedComparison ==
    /\ pc = "compared"
    /\ swapped' = calculate_performance_comparison(treatment, baseline)
    /\ pc' = "swapped"
    /\ UNCHANGED <<baseline, treatment, significance_again, significance, comparison,
                   buildVars, loadVars, report>>

NextSymmetry == CallComparison \/ CallSwappedComparison

SpecSymmetry == InitCalc /\ [][NextSymmetry]_vars

-----------------------------------------------------------------------------
(* create_comparison_data *)

\* A params dict is the sequence of its <<key, value>> items in insertion
\* order.  ParamKeyOrder lists the parameter names in the order sorted()
\* gives them.
ParamKeyOrder == <<"a", "b">>

ParamKeys(params) == {params[i][1] : i \in DOMAIN params}

ParamValue(params, k) ==
    LET i == CHOOSE j \in DOMAIN params : params[j][1] = k IN params[i][2]

\* mutation of SortedKeys: the keys taken in insertion order, not sorted
InsertionOrderKeys(params) == [i \in DOMAIN params |-> params[i][1]]

SortedKeys(params) ==
    LET Has(k) == k \in ParamKeys(params) IN SelectSeq(ParamKeyOrder, Has)

RECURSIVE JoinParams(_, _)
JoinParams(params, keys) ==
    IF keys = <<>> THEN ""
    ELSE LET item == Head(keys) \o "=" \o ParamValue(params, Head(keys))
         IN  IF Len(keys) = 1 THEN item
             ELSE item \o "&" \o JoinParams(params, Tail(keys))

MatchKey(result) ==
    result.benchmark \o "_" \o result.mode \o "_" \o ToString(result.threads)
        \o "_" \o JoinParams(result.params, SortedKeys(result.params))

\* the records of a file-name -> list mapping, in iteration order
RECURSIVE AllResults(_)
AllResults(results) ==
    IF results = <<>> THEN <<>>
    ELSE Head(results).results \o AllResults(Tail(results))

\* key -> record, a later record replacing an earlier one with the same key
ResultMap(results) ==
    LET all == AllResults(results)
        keys == {MatchKey(all[i]) : i \in DOMAIN all}
        Last(k) == CHOOSE i \in DOMAIN all :
                      /\ MatchKey(all[i]) = k
                      /\ \A j \in DOMAIN all : MatchKey(all[j]) = k => j <= i
    IN  [k \in keys |-> all[Last(k)]]

Details(r) ==
    [jvm |-> r.jvm, jvm_args |-> r.jvm_args, jdk |-> r.jdk,
     vm_name |-> r.vm_name, vm_version |-> r.vm_version, forks |-> r.forks,
     warmup_iterations |-> r.warmup_iterations,
     warmup_time |-> r.warmup_time,
     measurement_iterations |-> r.measurement_iterations,
     measurement_time |-> r.measurement_time,
     score_confidence |->
        IF "scoreConfidence" \in DOMAIN r.primary_metric
        THEN r.primary_metric.scoreConfidence ELSE <<>>,
     secondary_metrics |-> r.secondary_metrics, params |-> r.params]

\* mutation of ComparisonRecord: the unit taken from the treatment record
ComparisonRecordTreatmentUnit(b, t, cmp) ==
    IF "higher_is_better" \notin DOMAIN cmp THEN Raise("KeyError")
    ELSE Return(
        [benchmark |-> b.benchmark, mode |-> b.mode, threads |-> b.threads,
         baseline_score |-> score(b), baseline_error |-> score_error(b),
         treatment_score |-> score(t), treatment_error |-> score_error(t),
         unit |-> score_unit(t),
         improvement_percent |-> cmp.improvement_percent,
         speedup |-> cmp.speedup, status |-> cmp.status,
         higher_is_better |-> cmp.higher_is_better,
         baseline_vm |-> b.vm_name, treatment_vm |-> t.vm_name,
         baseline_jdk |-> b.jdk, treatment_jdk |-> t.jdk,
         statistical_significance |-> cmp.statistical_significance,
         baseline_details |-> Details(b), treatment_details |-> Details(t)])

\* the dict built for one pair; reading a key the comparison does not have
\* raises KeyError
ComparisonRecord(b, t, cmp) ==
    IF "higher_is_better" \notin DOMAIN cmp THEN Raise("KeyError")
    ELSE Return(
        [benchmark |-> b.benchmark, mode |-> b.mode, threads |-> b.threads,
         baseline_score |-> score(b), baseline_error |-> score_error(b),
         treatment_score |-> score(t), treatment_error |-> score_error(t),
         unit |-> score_unit(b),
         improvement_percent |-> cmp.improvement_percent,
         speedup |-> cmp.speedup, status |-> cmp.status,
         higher_is_better |-> cmp.higher_is_better,
         baseline_vm |-> b.vm_name, treatment_vm |-> t.vm_name,
         baseline_jdk |-> b.jdk, treatment_jdk |-> t.jdk,
         statistical_significance |-> cmp.statistical_significance,
         baseline_details |-> Details(b), treatment_details |-> Details(t)])

\* mutation of CompareAll: an exception ends the loop and the records built
\* so far are returned
RECURSIVE CompareUntilError(_, _, _, _)
CompareUntilError(baseline_map, treatment_map, order, done) ==
    IF order = <<>> THEN Return(done)
    ELSE LET b == baseline_map[Head(order)]
             t == treatment_map[Head(order)]
             cmp == calculate_performance_comparison(b, t)
             data == IF Raised(cmp) THEN cmp
                     ELSE ComparisonRecord(b, t, cmp.ret)
         IN  IF Raised(data) THEN Return(done)
             ELSE CompareUntilError(baseline_map, treatment_map, Tail(order),
                                    Append(done, data.ret))

\* the loop over common_benchmarks, taken in the order `order`
RECURSIVE CompareAll(_, _, _, _)
CompareAll(baseline_map, treatment_map, order, done) ==
    IF order = <<>> THEN Return(done)
    ELSE LET b == baseline_map[Head(order)]
             t == treatment_map[Head(order)]
             cmp == calculate_performance_comparison(b, t)
             data == IF Raised(cmp) THEN cmp
                     ELSE ComparisonRecord(b, t, cmp.ret)
         IN  IF Raised(data) THEN data
             ELSE CompareAll(baseline_map, treatment_map, Tail(order),
                             Append(done, data.ret))

CommonBenchmarks(b_results, t_results) ==
    DOMAIN ResultMap(b_results) \cap DOMAIN ResultMap(t_results)

\* the sequences that list every element of the set S once
Orders(S) ==
    {o \in [1..Cardinality(S) -> S] : \A x \in S : \E i \in DOMAIN o : o[i] = x}

create_comparison_data(b_results, t_results, order) ==
    CompareAll(ResultMap(b_results), ResultMap(t_results), order, <<>>)

-----------------------------------------------------------------------------
(* create_comparison_data called on two loaded result sets *)

BuildScores == {0} \cup ScenarioScores

\* a throughput benchmark and an average-time benchmark
BuildBenchmarks ==
    {[name |-> "X", mode |-> "thrpt"], [name |-> "Y", mode |-> "avgt"]}

BuildRecords ==
    {BenchmarkResult(bm.name, bm.mode, 1, 10,
                     [score |-> sc, scoreError |-> 5, scoreUnit |-> "ops/s"],
                     <<>>) :
        bm \in BuildBenchmarks, sc \in BuildScores}

File(name, results) == [name |-> name, results |-> results]

\* the lists of at most n records
RECURSIVE ResultLists(_)
ResultLists(n) ==
    IF n = 0 THEN {<<>>}
    ELSE ResultLists(n - 1)
            \cup {Append(l, r) : l \in ResultLists(n - 1), r \in BuildRecords}

\* file-name -> list mappings of one or two files holding at most MaxRecords
\* records in all, and the mapping without any file
LoadedResults ==
    {<<>>}
        \cup {<<File("1.json", l)>> : l \in ResultLists(MaxRecords)}
        \cup UNION {{<<File("1.json", SubSeq(l, 1, k)),
                       File("2.json", SubSeq(l, k + 1, Len(l)))>> :
                        k \in 1..(Len(l) - 1)} : l \in ResultLists(MaxRecords)}

InitBuild ==
    /\ baseline_results \in LoadedResults
    /\ treatment_results \in LoadedResults
    /\ pc = "start"
    /\ comparison_data = NotCalled
    /\ comparison_data_again = NotCalled
    /\ NoCalc /\ NoLoad /\ NoReport

\* the two argument mappings after create_comparison_data has returned or
\* raised: lines 306-318 iterate over them and lines 323-378 read the records
\* found; nothing is assigned to, added to or removed from either
ResultsAfterCall(b_results, t_results) == <<b_results, t_results>>

CallCreateComparisonData ==
    /\ pc = "start"
    /\ \E order \in Orders(CommonBenchmarks(baseline_results, treatment_results)) :
          comparison_data' =
              create_comparison_data(baseline_results, treatment_results, order)
    /\ baseline_results' = ResultsAfterCall(baseline_results, treatment_results)[1]
    /\ treatment_results' = ResultsAfterCall(baseline_results, treatment_results)[2]
    /\ pc' = "built"
    /\ UNCHANGED <<calcVars, comparison_data_again, loadVars, report>>

NextBuild == CallCreateComparisonData

SpecBuild == InitBuild /\ [][NextBuild]_vars

\* a second call on the same inputs; the set common_benchmarks may be
\* iterated in another order
CallCreateComparisonDataAgain ==
    /\ pc = "built"
    /\ \E order \in Orders(CommonBenchmarks(baseline_results, treatment_results)) :
          comparison_data_again' =
              create_comparison_data(baseline_results, treatment_results, order)
    /\ pc' = "rebuilt"
    /\ UNCHANGED <<calcVars, baseline_results, treatment_results,
                   comparison_data, loadVars, report>>

NextTwice == CallCreateComparisonData \/ CallCreateComparisonDataAgain

SpecTwice == InitBuild /\ [][NextTwice]_vars

\* the three engine operations, each called on its own arguments
PureRecords ==
    {BenchmarkResult("X", "thrpt", 1, it, pm, <<>>) :
        it \in {1, 10},
        pm \in {[k \in {} |-> 0],
                [score |-> 0, scoreError |-> 5, scoreUnit |-> "ops/s"],
                [score |-> 100, scoreError |-> 5, scoreUnit |-> "ops/s"]}}

InitPure ==
    /\ baseline \in PureRecords
    /\ treatment \in PureRecords
    /\ \E b \in PureRecords : baseline_results = <<File("1.json", <<b>>)>>
    /\ \E t \in PureRecords : treatment_results = <<File("1.json", <<t>>)>>
    /\ pc = "start"
    /\ significance = NotCalled
    /\ significance_again = NotCalled
    /\ comparison = NotCalled
    /\ swapped = NotCalled
    /\ comparison_data = NotCalled
    /\ comparison_data_again = NotCalled
    /\ NoLoad /\ NoReport

NextPure ==
    \/ CallSignificance
    \/ CallComparison
    \/ CallCreateComparisonData
    \/ CallCreateComparisonDataAgain

SpecPure == InitPure /\ [][NextPure]_vars

\* a later change, made in place by the caller, to one of the mutable
\* attributes of a source record
MutableFields == {"params", "secondary_metrics", "jvm_args"}
ChangedValues == {<<<<"a", "9">>>>, <<<<"b", "9">>>>}

AliasRecords ==
    {BenchmarkResult("X", "thrpt", 1, 10,
                     [score |-> sc, scoreError |-> 5, scoreUnit |-> "ops/s"],
                     ps) :
        sc \in ScenarioScores, ps \in {<<>>, <<<<"a", "1">>>>}}

InitAlias ==
    /\ \E b \in AliasRecords : baseline_results = <<File("1.json", <<b>>)>>
    /\ \E t \in AliasRecords : treatment_results = <<File("1.json", <<t>>)>>
    /\ pc = "start"
    /\ comparison_data = NotCalled
    /\ comparison_data_again = NotCalled
    /\ NoCalc /\ NoLoad /\ NoReport

\* results with attribute `field` of the n-th record of the f-th file changed
ChangeRecord(results, f, n, field, value) ==
    [results EXCEPT ![f].results[n][field] = value]

\* lines 349, 359-360, 364, 374-375 store in the details dicts the very list
\* and dict objects of the record, so a Comparison Record built from the
\* changed record shows the change
ChangeDetails(out, side, key, field, value) ==
    [i \in DOMAIN out |->
        IF MatchKey([benchmark |-> out[i].benchmark, mode |-> out[i].mode,
                     threads |-> out[i].threads,
                     params |-> out[i].baseline_details.params]) = key
        THEN [out[i] EXCEPT ![side][field] = value]
        ELSE out[i]]

\* the record changed is the one its side's map held for its key
ChangeSource ==
    /\ pc = "built"
    /\ Returned(comparison_data)
    /\ \E field \in MutableFields, value \in ChangedValues :
          \/ /\ baseline_results' =
                    ChangeRecord(baseline_results, 1, 1, field, value)
             /\ comparison_data' =
                    Return(ChangeDetails(comparison_data.ret, "baseline_details",
                                         MatchKey(baseline_results[1].results[1]),
                                         field, value))
             /\ UNCHANGED treatment_results
          \/ /\ treatment_results' =
                    ChangeRecord(treatment_results, 1, 1, field, value)
             /\ comparison_data' =
                    Return(ChangeDetails(comparison_data.ret, "treatment_details",
                                         MatchKey(treatment_results[1].results[1]),
                                         field, value))
             /\ UNCHANGED baseline_results
    /\ pc' = "changed"
    /\ UNCHANGED <<calcVars, comparison_data_again, loadVars, report>>

NextAlias == CallCreateComparisonData \/ ChangeSource

SpecAlias == InitAlias /\ [][NextAlias]_vars

\* one record on each side, with the unit, the score and the error varying;
\* benchmark "X_Y" in mode "thrpt" and benchmark "X" in mode "Y_thrpt" have
\* the same match key
UnitNames == {<<"X", "thrpt">>, <<"X", "avgt">>, <<"X_Y", "thrpt">>,
              <<"X", "Y_thrpt">>}
Units == {"ops/s", "ops/ms"}
UnitErrors == {0, 5}

UnitRecords ==
    {BenchmarkResult(nm[1], nm[2], 1, 10,
                     [score |-> sc, scoreError |-> er, scoreUnit |-> un],
                     <<>>) :
        nm \in UnitNames, sc \in ScenarioScores, er \in UnitErrors,
        un \in Units}

InitUnits ==
    /\ \E b \in UnitRecords : baseline_results = <<File("1.json", <<b>>)>>
    /\ \E t \in UnitRecords : treatment_results = <<File("1.json", <<t>>)>>
    /\ pc = "start"
    /\ comparison_data = NotCalled
    /\ comparison_data_again = NotCalled
    /\ NoCalc /\ NoLoad /\ NoReport

SpecUnits == InitUnits /\ [][NextBuild]_vars

-----------------------------------------------------------------------------
(* parse_jmh_json and load_benchmark_results *)

\* item.get(key, default)
Get(item, key, default) == IF key \in DOMAIN item THEN item[key] ELSE default

\* the BenchmarkResult built from one JSON object
ParseItem(item) ==
    [benchmark |-> Get(item, "benchmark", ""),
     mode |-> Get(item, "mode", ""),
     threads |-> Get(item, "threads", 1),
     forks |-> Get(item, "forks", 1),
     jvm |-> Get(item, "jvm", ""),
     jvm_args |-> Get(item, "jvmArgs", <<>>),
     jdk |-> Get(item, "jdk", ""),
     vm_name |-> Get(item, "vmName", ""),
     vm_version |-> Get(item, "vmVersion", ""),
     warmup_iterations |-> Get(item, "warmupIterations", 0),
     warmup_time |-> Get(item, "warmupTime", ""),
     measurement_iterations |-> Get(item, "measurementIterations", 0),
     measurement_time |-> Get(item, "measurementTime", ""),
     primary_metric |-> Get(item, "primaryMetric", <<>>),
     secondary_metrics |-> Get(item, "secondaryMetrics", <<>>),
     params |-> Get(item, "params", <<>>)]

\* the content of a file: text that json.load rejects, or a JSON array whose
\* elements are objects or scalars
Malformed == [kind |-> "malformed"]
Array(items) == [kind |-> "array", items |-> items]
Object(fields) == [kind |-> "object", fields |-> fields]
Scalar == [kind |-> "scalar"]

\* mutation of parse_jmh_json: the exception handler returns the records
\* built before the item that raised
parse_jmh_json_prefix(data) ==
    IF data.kind = "malformed" THEN Return(<<>>)
    ELSE LET bad == {i \in DOMAIN data.items : data.items[i].kind # "object"}
             n == IF bad = {} THEN Len(data.items)
                  ELSE (CHOOSE i \in bad : \A j \in bad : i <= j) - 1
         IN  Return([i \in 1..n |-> ParseItem(data.items[i].fields)])

\* json.load raises on malformed text and item.get raises AttributeError on
\* a scalar element; either exception is caught and [] returned
parse_jmh_json(data) ==
    IF data.kind = "malformed" THEN Return(<<>>)
    ELSE IF \E i \in DOMAIN data.items : data.items[i].kind # "object"
    THEN Return(<<>>)
    ELSE Return([i \in DOMAIN data.items |-> ParseItem(data.items[i].fields)])

\* a directory: missing, or the sequence of its *.json files
MissingDirectory == [exists |-> FALSE]
Directory(files) == [exists |-> TRUE, files |-> files]
JsonFile(name, data) == [name |-> name, data |-> data]

\* the results of parse_jmh_json on the files of a directory, in order
ParseFiles(files) == [i \in DOMAIN files |-> parse_jmh_json(files[i].data)]

\* if file_results: results[json_file.name] = file_results
RECURSIVE LoadFiles(_, _)
LoadFiles(files, results) ==
    IF files = <<>> THEN results
    ELSE LET file_results == parse_jmh_json(Head(files).data).ret
         IN  LoadFiles(Tail(files),
                       IF file_results # <<>>
                       THEN Append(results, File(Head(files).name, file_results))
                       ELSE results)

load_benchmark_results(directory) ==
    IF ~directory.exists THEN <<>>
    ELSE LoadFiles(directory.files, <<>>)

\* the keys of a JMH result object
JsonKeys ==
    {"benchmark", "mode", "threads", "forks", "jvm", "jvmArgs", "jdk",
     "vmName", "vmVersion", "warmupIterations", "warmupTime",
     "measurementIterations", "measurementTime", "primaryMetric",
     "secondaryMetrics", "params"}

\* a JMH result object with every key
CompleteItem(sc) ==
    [benchmark |-> "X", mode |-> "thrpt", threads |-> 1, forks |-> 1,
     jvm |-> "java", jvmArgs |-> <<>>, jdk |-> "21", vmName |-> "vm",
     vmVersion |-> "1", warmupIterations |-> 0, warmupTime |-> "1 s",
     measurementIterations |-> 10, measurementTime |-> "1 s",
     primaryMetric |-> [score |-> sc, scoreError |-> 5, scoreUnit |-> "ops/s"],
     secondaryMetrics |-> <<>>, params |-> <<>>]

Without(item, keys) == [k \in (DOMAIN item) \ keys |-> item[k]]

\* the keys an object may lack
DroppedKeys == {"benchmark", "measurementIterations", "primaryMetric"}

Items ==
    {Object(Without(CompleteItem(sc), keys)) :
        sc \in ScenarioScores, keys \in SUBSET DroppedKeys}
        \cup {Scalar}

RECURSIVE ItemLists(_)
ItemLists(n) ==
    IF n = 0 THEN {<<>>}
    ELSE ItemLists(n - 1)
            \cup {Append(l, item) : l \in ItemLists(n - 1), item \in Items}

FileContents == {Malformed} \cup {Array(l) : l \in ItemLists(MaxItems)}

ShortFileContents == {Malformed} \cup {Array(l) : l \in ItemLists(MaxItems - 1)}

\* a missing directory, and directories of up to two files
Directories ==
    {MissingDirectory, Directory(<<>>)}
        \cup {Directory(<<JsonFile("1.json", data)>>) : data \in FileContents}
        \cup {Directory(<<JsonFile("1.json", d1), JsonFile("2.json", d2)>>) :
                d1 \in ShortFileContents, d2 \in ShortFileContents}

\* the treatment side as loaded from one file with one complete record
TreatmentLoaded ==
    <<File("1.json", <<ParseItem(CompleteItem(120))>>)>>

\* json_data is the baseline directory
InitLoad ==
    /\ json_data \in Directories
    /\ parsed = NotCalled
    /\ treatment_dir = None
    /\ details_file = None
    /\ experiment_details = NotCalled
    /\ baseline_results = <<>>
    /\ treatment_results = TreatmentLoaded
    /\ pc = "start"
    /\ comparison_data = NotCalled
    /\ comparison_data_again = NotCalled
    /\ NoCalc /\ NoReport

\* main, lines 1766-1767
LoadBaseline ==
    /\ pc = "start"
    /\ parsed' = IF json_data.exists THEN Return(ParseFiles(json_data.files))
                 ELSE NotCalled
    /\ baseline_results' = load_benchmark_results(json_data)
    /\ pc' = "loaded"
    /\ UNCHANGED <<calcVars, treatment_results, comparison_data,
                   comparison_data_again, json_data, report,
                   treatment_dir, details_file, experiment_details>>

\* main, lines 1771-1784
CompareLoaded ==
    /\ pc = "loaded"
    /\ baseline_results # <<>>
    /\ treatment_results # <<>>
    /\ \E order \in Orders(CommonBenchmarks(baseline_results, treatment_results)) :
          comparison_data' =
              create_comparison_data(baseline_results, treatment_results, order)
    /\ pc' = "built"
    /\ UNCHANGED <<calcVars, baseline_results, treatment_results,
                   comparison_data_again, loadVars, report>>

NextLoad == LoadBaseline \/ CompareLoaded

SpecLoad == InitLoad /\ [][NextLoad]_vars

-----------------------------------------------------------------------------
(* parse_details_file.  A line is the sequence of its characters, the text
   of a section the sequence of the characters of its lines with "\n"
   between them, and the returned dict the sequence of its <<key, value>>
   items in insertion order. *)

Whitespace == {" ", "\n"}

RECURSIVE lstrip(_)
lstrip(text) ==
    IF text # <<>> /\ Head(text) \in Whitespace THEN lstrip(Tail(text))
    ELSE text

RECURSIVE rstrip(_)
rstrip(text) ==
    IF text # <<>> /\ text[Len(text)] \in Whitespace
    THEN rstrip(SubSeq(text, 1, Len(text) - 1))
    ELSE text

strip(text) == lstrip(rstrip(text))

\* '\n'.join(lines)
RECURSIVE join(_)
join(lines) ==
    IF lines = <<>> THEN <<>>
    ELSE IF Len(lines) = 1 THEN lines[1]
    ELSE lines[1] \o <<"\n">> \o join(Tail(lines))

\* details[key] = value
RECURSIVE SetItem(_, _, _)
SetItem(details, key, value) ==
    IF details = <<>> THEN <<<<key, value>>>>
    ELSE IF Head(details)[1] = key THEN <<<<key, value>>>> \o Tail(details)
    ELSE <<Head(details)>> \o SetItem(Tail(details), key, value)

\* mutation of StartsWithDash: leading whitespace ignored
StartsWithDashAfterStrip(line) ==
    lstrip(line) # <<>> /\ Head(lstrip(line)) = "-"

\* line.startswith('-')
StartsWithDash(line) == line # <<>> /\ Head(line) = "-"

\* line[1:].strip(), without a trailing ':' and stripped again
HeaderKey(line) ==
    LET key == strip(Tail(line))
    IN  IF key # <<>> /\ key[Len(key)] = ":"
        THEN strip(SubSeq(key, 1, Len(key) - 1))
        ELSE key

\* if current_key: details[current_key] = '\n'.join(current_value).strip();
\* current_key is <<>> for None and <<key>> for a key, which may be ''
SaveSection(details, current_key, current_value) ==
    IF current_key # <<>> /\ current_key[1] # <<>>
    THEN SetItem(details, current_key[1], strip(join(current_value)))
    ELSE details

\* the loop of lines 155-173 and the statements of lines 176-177
RECURSIVE ParseLines(_, _, _, _)
ParseLines(lines, current_key, current_value, details) ==
    IF lines = <<>> THEN SaveSection(details, current_key, current_value)
    ELSE LET line == rstrip(Head(lines))
         IN  IF StartsWithDash(line)
             THEN ParseLines(Tail(lines), <<HeaderKey(line)>>, <<>>,
                             SaveSection(details, current_key, current_value))
             ELSE IF current_key # <<>>
             THEN ParseLines(Tail(lines), current_key,
                             Append(current_value, line), details)
             ELSE ParseLines(Tail(lines), current_key, current_value, details)

\* the details file: missing, unreadable, or the lines of its text
MissingFile == [kind |-> "missing"]
UnreadableFile == [kind |-> "unreadable"]
TextFile(lines) == [kind |-> "text", lines |-> lines]

parse_details_file(file) ==
    IF file.kind = "missing" THEN Return(<<>>)
    ELSE IF file.kind = "unreadable" THEN Return(<<>>)
    ELSE Return(ParseLines(file.lines, <<>>, <<>>, <<>>))

\* lines with and without a leading '-', with leading and trailing blanks,
\* with and without a name
DetailLines ==
    {<<>>, <<" ">>, <<"a">>, <<"b">>, <<" ", "a", " ">>, <<" ", "-", "a">>,
     <<"-", "a">>, <<"-", "a", ":">>, <<"-", " ", "a", " ">>, <<"-", "b">>,
     <<"-">>, <<"-", " ", ":">>}

RECURSIVE LineLists(_)
LineLists(n) ==
    IF n = 0 THEN {<<>>}
    ELSE LineLists(n - 1)
            \cup {Append(l, line) : l \in LineLists(n - 1), line \in DetailLines}

DetailsFiles ==
    {MissingFile, UnreadableFile}
        \cup {TextFile(l) : l \in LineLists(MaxLines) \ {<<>>}}

InitDetails ==
    /\ details_file \in DetailsFiles
    /\ experiment_details = NotCalled
    /\ json_data = None
    /\ parsed = NotCalled
    /\ treatment_dir = None
    /\ pc = "start"
    /\ NoCalc /\ NoBuild /\ NoReport

CallParseDetailsFile ==
    /\ pc = "start"
    /\ experiment_details' = parse_details_file(details_file)
    /\ pc' = "details_parsed"
    /\ UNCHANGED <<calcVars, buildVars, json_data, parsed, treatment_dir,
                   details_file, report>>

NextDetails == CallParseDetailsFile

SpecDetails == InitDetails /\ [][NextDetails]_vars

-----------------------------------------------------------------------------
(* generate_html_report and the script of the page it writes.  A table row
   is modelled by its title, mode, status and SS cell; the trimmed display
   name, the formatted scores and the summary cards are left out. *)

\* json.dumps of the values of is_significant and insufficient_data, as the
\* script reads them back; a missing key reads as undefined
ToJson(v) ==
    IF v = None THEN "null"
    ELSE IF v = True THEN "true"
    ELSE "false"

JsBool(b) == IF b THEN "true" ELSE "false"

\* the truthiness of null, undefined, true and false in the script
Truthy(v) == v = "true"

\* lines 932-935
significance_display(sig_data) ==
    IF "insufficient_data" \in DOMAIN sig_data /\ sig_data.insufficient_data
    THEN "?"
    ELSE IF sig_data.is_significant = True THEN "Yes" ELSE "No"

\* one <tr> of the table written by generate_html_report
StaticRow(data) ==
    [benchmark |-> data.benchmark, mode |-> data.mode,
     status |-> data.status,
     ss |-> significance_display(data.statistical_significance)]

\* one element of originalData
JsonRow(data) ==
    [benchmark |-> data.benchmark, mode |-> data.mode,
     status |-> data.status,
     is_significant |-> ToJson(data.statistical_significance.is_significant),
     insufficient_data |->
        IF "insufficient_data" \in DOMAIN data.statistical_significance
        THEN JsBool(data.statistical_significance.insufficient_data)
        ELSE "undefined"]

\* row.benchmark.toLowerCase() for the benchmark names of the model
ToLowerCase(name) ==
    IF name = "X" THEN "x" ELSE IF name = "Y" THEN "y" ELSE name

\* String.includes for a filter text that is empty or one letter long and
\* a one-letter name
Includes(name, text) == text = "" \/ text = name

\* the values of the four filter controls
NoFilters ==
    [benchmark |-> "", status |-> "", mode |-> "", significance |-> ""]

BenchmarkFilters == {"", "x", "y"}
StatusFilters == {"", "improved", "regressed", "unchanged"}
ModeFilters == {"", "thrpt", "avgt"}
SignificanceFilters == {"", "significant", "not_significant", "insufficient_data"}

\* mutation of MatchesSignificance: 'not_significant' leaves out the rows
\* with insufficient data
MatchesSignificanceThreeState(row, significanceFilter) ==
    \/ significanceFilter = ""
    \/ significanceFilter = "significant" /\ Truthy(row.is_significant)
    \/ significanceFilter = "not_significant" /\ ~Truthy(row.is_significant)
            /\ ~Truthy(row.insufficient_data)
    \/ significanceFilter = "insufficient_data" /\ Truthy(row.insufficient_data)

\* lines 1010-1013
MatchesSignificance(row, significanceFilter) ==
    \/ significanceFilter = ""
    \/ significanceFilter = "significant" /\ Truthy(row.is_significant)
    \/ significanceFilter = "not_significant" /\ ~Truthy(row.is_significant)
    \/ significanceFilter = "insufficient_data" /\ Truthy(row.insufficient_data)

\* the predicate of originalData.filter, lines 1006-1016
Matches(row, filters) ==
    /\ Includes(ToLowerCase(row.benchmark), filters.benchmark)
    /\ filters.status = "" \/ row.status = filters.status
    /\ filters.mode = "" \/ row.mode = filters.mode
    /\ MatchesSignificance(row, filters.significance)

\* one <tr> built by updateTable, lines 1029-1035
DynamicRow(data) ==
    [benchmark |-> data.benchmark, mode |-> data.mode,
     status |-> data.status,
     ss |-> IF Truthy(data.insufficient_data) THEN "?"
            ELSE IF Truthy(data.is_significant) THEN "Yes" ELSE "No"]

updateTable(filteredData) ==
    [i \in DOMAIN filteredData |-> DynamicRow(filteredData[i])]

NotWritten == [written |-> FALSE]

generate_html_report(data) ==
    IF data = <<>> THEN NotWritten
    ELSE [written |-> TRUE,
          static_table |-> [i \in DOMAIN data |-> StaticRow(data[i])],
          originalData |-> [i \in DOMAIN data |-> JsonRow(data[i])],
          filteredData |-> [i \in DOMAIN data |-> JsonRow(data[i])],
          filters |-> NoFilters,
          table |-> [i \in DOMAIN data |-> StaticRow(data[i])]]

\* the records of one side: X measured in thrpt, Y in avgt
ReportRecord(bm, sc, it) ==
    BenchmarkResult(bm, IF bm = "X" THEN "thrpt" ELSE "avgt", 1, it,
                    [score |-> sc, scoreError |-> 5, scoreUnit |-> "ops/s"],
                    <<>>)

ReportIterations == {1, 10}

ReportBaselines ==
    {<<File("1.json", <<ReportRecord("X", sc, it)>>)>> :
        sc \in ScenarioScores, it \in ReportIterations}
        \cup {<<File("1.json", <<ReportRecord("X", sc1, it1),
                                 ReportRecord("Y", sc2, it2)>>)>> :
                sc1 \in ScenarioScores, it1 \in ReportIterations,
                sc2 \in ScenarioScores, it2 \in ReportIterations}

ReportTreatment ==
    <<File("1.json", <<ReportRecord("X", 120, 10), ReportRecord("Y", 120, 10)>>)>>

InitReport ==
    /\ baseline_results \in ReportBaselines
    /\ treatment_results = ReportTreatment
    /\ pc = "start"
    /\ comparison_data = NotCalled
    /\ comparison_data_again = NotCalled
    /\ NoCalc /\ NoLoad /\ NoReport

GenerateHtmlReport ==
    /\ pc = "built"
    /\ Returned(comparison_data)
    /\ report' = generate_html_report(comparison_data.ret)
    /\ pc' = "reported"
    /\ UNCHANGED <<calcVars, buildVars, loadVars>>

\* filterTable() after the reader has set the filter controls
FilterTable ==
    /\ pc \in {"reported", "filtered"}
    /\ report.written
    /\ \E b \in BenchmarkFilters, st \in StatusFilters, md \in ModeFilters,
          sg \in SignificanceFilters :
          LET filters == [benchmark |-> b, status |-> st, mode |-> md,
                          significance |-> sg]
              Test(row) == Matches(row, filters)
              filteredData == SelectSeq(report.originalData, Test)
          IN  report' = [report EXCEPT !.filters = filters,
                                       !.filteredData = filteredData,
                                       !.table = updateTable(filteredData)]
    /\ pc' = "filtered"
    /\ UNCHANGED <<calcVars, buildVars, loadVars>>

NextReport == CallCreateComparisonData \/ GenerateHtmlReport \/ FilterTable

SpecReport == InitReport /\ [][NextReport]_vars

-----------------------------------------------------------------------------
(* main.  json_data is the baseline directory, treatment_dir the treatment
   directory; pc names the statement main has reached or the return it has
   taken. *)

\* mutation of CheckDirectories: the treatment directory is looked at first
CheckTreatmentDirectoryFirst(b_dir, t_dir) ==
    IF ~t_dir.exists THEN "no_treatment_dir"
    ELSE IF ~b_dir.exists THEN "no_baseline_dir"
    ELSE "dirs_ok"

\* lines 1751-1759
CheckDirectories(b_dir, t_dir) ==
    IF ~b_dir.exists THEN "no_baseline_dir"
    ELSE IF ~t_dir.exists THEN "no_treatment_dir"
    ELSE "dirs_ok"

\* lines 1771-1777
CheckResults(b_results, t_results) ==
    IF b_results = <<>> THEN "no_baseline_results"
    ELSE IF t_results = <<>> THEN "no_treatment_results"
    ELSE "loaded"

\* one complete record, a record without a name, a record without a score
MainItems ==
    {Object(CompleteItem(100)), Object(CompleteItem(120)),
     Object(Without(CompleteItem(100), {"benchmark"})),
     Object(Without(CompleteItem(100), {"primaryMetric"}))}

MainDirectories ==
    {MissingDirectory, Directory(<<>>),
     Directory(<<JsonFile("1.json", Malformed)>>)}
        \cup {Directory(<<JsonFile("1.json", Array(<<item>>))>>) :
                item \in MainItems}

MainDetailsFiles == {MissingFile, TextFile(<<<<"-", "a">>, <<"b">>>>)}

InitMain ==
    /\ json_data \in MainDirectories
    /\ treatment_dir \in MainDirectories
    /\ details_file \in MainDetailsFiles
    /\ experiment_details = NotCalled
    /\ parsed = NotCalled
    /\ baseline_results = <<>>
    /\ treatment_results = <<>>
    /\ comparison_data = NotCalled
    /\ comparison_data_again = NotCalled
    /\ pc = "start"
    /\ NoCalc /\ NoReport

MainCheckDirectories ==
    /\ pc = "start"
    /\ pc' = CheckDirectories(json_data, treatment_dir)
    /\ UNCHANGED <<calcVars, buildVars, loadVars, report>>

\* line 1762
MainParseDetails ==
    /\ pc = "dirs_ok"
    /\ experiment_details' = parse_details_file(details_file)
    /\ pc' = "details_parsed"
    /\ UNCHANGED <<calcVars, buildVars, json_data, parsed, treatment_dir,
                   details_file, report>>

\* lines 1766-1777
MainLoad ==
    /\ pc = "details_parsed"
    /\ parsed' = Return(ParseFiles(json_data.files))
    /\ baseline_results' = load_benchmark_results(json_data)
    /\ treatment_results' = load_benchmark_results(treatment_dir)
    /\ pc' = CheckResults(baseline_results', treatment_results')
    /\ UNCHANGED <<calcVars, comparison_data, comparison_data_again,
                   json_data, treatment_dir, details_file,
                   experiment_details, report>>

\* lines 1786-1794; an exception of create_comparison_data leaves main
MainReport ==
    /\ pc = "built"
    /\ IF ~Returned(comparison_data)
       THEN pc' = "crashed" /\ UNCHANGED report
       ELSE IF comparison_data.ret = <<>>
       THEN pc' = "no_matches" /\ UNCHANGED report
       ELSE /\ report' = generate_html_report(comparison_data.ret)
            /\ pc' = "done"
    /\ UNCHANGED <<calcVars, buildVars, loadVars>>

\* generate_html_report called on the empty list that main has refused
CallGenerateHtmlReport ==
    /\ pc = "no_matches"
    /\ report' = generate_html_report(comparison_data.ret)
    /\ pc' = "reported"
    /\ UNCHANGED <<calcVars, buildVars, loadVars>>

NextMain ==
    \/ MainCheckDirectories
    \/ MainParseDetails
    \/ MainLoad
    \/ CompareLoaded
    \/ MainReport
    \/ CallGenerateHtmlReport

SpecMain == InitMain /\ [][NextMain]_vars

-----------------------------------------------------------------------------
(* create_comparison_data called on one baseline record and one treatment   *)
(* record whose identities vary                                             *)

ParamNames == {"a", "b"}

\* parameter values as JMH reports them (strings), one of them holding the
\* separators '&' and '='
ParamValues == {"1", "2", "4", "4.0", "1&b=2"}

\* the params dicts over ParamNames, in every insertion order
KeyParams ==
    {<<>>}
        \cup {<<<<k, v>>>> : k \in ParamNames, v \in ParamValues}
        \cup UNION {{<<<<k1, v1>>, <<k2, v2>>>> :
                        k2 \in ParamNames \ {k1},
                        v1 \in ParamValues, v2 \in ParamValues} :
                     k1 \in ParamNames}

KeyRecords ==
    {BenchmarkResult(bm, md, th, 10,
                     [score |-> 100, scoreError |-> 5, scoreUnit |-> "ops/s"],
                     ps) :
        bm \in {"X", "Y"}, md \in {"thrpt", "avgt"}, th \in 1..MaxThreads,
        ps \in KeyParams}

InitKeys ==
    /\ \E b \in KeyRecords : baseline_results = <<File("1.json", <<b>>)>>
    /\ \E t \in KeyRecords : treatment_results = <<File("1.json", <<t>>)>>
    /\ pc = "start"
    /\ comparison_data = NotCalled
    /\ comparison_data_again = NotCalled
    /\ NoCalc /\ NoLoad /\ NoReport

SpecKeys == InitKeys /\ [][NextBuild]_vars

-----------------------------------------------------------------------------
(* Properties of the calculators (specification Spec) and of                *)
(* create_comparison_data (specification SpecBuild)                         *)

Compared == pc = "compared"
Classified == pc = "classified"
Built == pc = "built"

ComparisonFields ==
    {"improvement_percent", "speedup", "status", "higher_is_better",
     "statistical_significance"}

SignificanceFields ==
    {"is_significant", "confidence_level", "t_statistic", "insufficient_data"}

RecordFields ==
    ComparisonFields \cup
        {"benchmark", "mode", "threads", "unit", "baseline_score",
         "baseline_error", "treatment_score", "treatment_error",
         "baseline_details", "treatment_details"}

FewIterations ==
    baseline.measurement_iterations <= 1 \/ treatment.measurement_iterations <= 1

ThroughputMode == baseline.mode \in {"thrpt", "Throughput"}

\* C1: create_comparison_data never aborts: for every baseline set and
\* treatment set it returns a sequence holding one well-formed Comparison
\* Record (all fields present) per shared key, or the empty sequence.
C1_BuildNeverAborts ==
    Built =>
        /\ Returned(comparison_data)
        /\ Len(comparison_data.ret) =
              Cardinality(CommonBenchmarks(baseline_results, treatment_results))
        /\ \A i \in DOMAIN comparison_data.ret :
              /\ RecordFields \subseteq DOMAIN comparison_data.ret[i]
              /\ SignificanceFields \subseteq
                    DOMAIN comparison_data.ret[i].statistical_significance

\* C2: calculate_performance_comparison never raises, whatever the modes and
\* scores of the pair.
C2_ComparisonNeverRaises == Compared => Returned(comparison)

\* C3: when either side has measurement_iterations <= 1, the result of
\* calculate_performance_comparison has insufficient_data = true and
\* is_significant = None, whatever the scores, errors and mode.
C3_TriStateSignificance ==
    (Compared /\ FewIterations) =>
        /\ Returned(comparison)
        /\ "insufficient_data" \in
              DOMAIN comparison.ret.statistical_significance
        /\ comparison.ret.statistical_significance.insufficient_data = TRUE
        /\ comparison.ret.statistical_significance.is_significant = None

\* speedup > 1 iff improved, < 1 iff regressed, = 1 iff unchanged
Polarity(r) ==
    /\ RatGt(r.speedup, One) <=> r.status = "improved"
    /\ RatLt(r.speedup, One) <=> r.status = "regressed"
    /\ r.speedup = One <=> r.status = "unchanged"

\* C4 as stated: the polarity invariant holds for every result of
\* calculate_performance_comparison.
C4_PolarityEveryResult ==
    (Compared /\ Returned(comparison)) => Polarity(comparison.ret)

\* C4 amended: the polarity invariant holds for every result whose status is
\* not baseline_zero (baseline.score # 0), in both polarities; the
\* baseline_zero result has speedup 0 with status baseline_zero.
C4_PolarityNonZeroBaseline ==
    (Compared /\ Returned(comparison)) =>
        IF score(baseline) # 0
        THEN /\ comparison.ret.status # "baseline_zero"
             /\ Polarity(comparison.ret)
        ELSE /\ comparison.ret.status = "baseline_zero"
             /\ comparison.ret.speedup = Zero

\* a lower-is-better pair whose treatment is faster: improved, speedup > 1
C4_Witness ==
    /\ Compared /\ Returned(comparison)
    /\ ~ThroughputMode
    /\ score(treatment) < score(baseline)
    /\ comparison.ret.status = "improved"
    /\ RatGt(comparison.ret.speedup, One)

\* C5: every result of calculate_performance_comparison, on every branch,
\* carries improvement_percent, speedup, status, higher_is_better and
\* statistical_significance, the latter with is_significant,
\* confidence_level, t_statistic and insufficient_data.
C5_SameFieldsEveryBranch ==
    (Compared /\ Returned(comparison)) =>
        /\ ComparisonFields \subseteq DOMAIN comparison.ret
        /\ SignificanceFields \subseteq
              DOMAIN comparison.ret.statistical_significance

\* C6: when baseline.score = 0, calculate_performance_comparison returns
\* (it divides nothing, so it cannot raise) improvement_percent = 0,
\* speedup = 0, status = baseline_zero, is_significant = False and
\* confidence_level = N/A, for every treatment record and every mode.
C6_BaselineZero ==
    (Compared /\ score(baseline) = 0) =>
        /\ Returned(comparison)
        /\ comparison.ret.improvement_percent = Zero
        /\ comparison.ret.speedup = Zero
        /\ comparison.ret.status = "baseline_zero"
        /\ comparison.ret.statistical_significance.is_significant = False
        /\ comparison.ret.statistical_significance.confidence_level = "N/A"

\* a zero baseline against a zero treatment in a lower-is-better mode
C6_Witness ==
    /\ Compared /\ Returned(comparison)
    /\ score(baseline) = 0 /\ score(treatment) = 0
    /\ ~ThroughputMode
    /\ comparison.ret.status = "baseline_zero"

\* C7: if either record's measurement_iterations <= 1,
\* calculate_statistical_significance returns exactly is_significant = None,
\* insufficient_data = true, confidence_level = "?", t_statistic = None,
\* whatever the scores and errors, also when both errors are 0.
C7_InsufficientDataFirst ==
    (Classified /\ FewIterations) =>
        /\ Returned(significance)
        /\ significance.ret =
              [is_significant |-> None, insufficient_data |-> TRUE,
               confidence_level |-> "?", t_statistic |-> None]

\* one iteration on one side, both errors 0, scores apart
C7_Witness ==
    /\ Classified /\ Returned(significance)
    /\ baseline.measurement_iterations = 1
    /\ treatment.measurement_iterations > 1
    /\ score_error(baseline) = 0 /\ score_error(treatment) = 0
    /\ score(baseline) # score(treatment)
    /\ significance.ret.insufficient_data = TRUE

ScenarioBaseline ==
    BenchmarkResult("X", "thrpt", 1, 10,
                    [score |-> 100, scoreError |-> 5, scoreUnit |-> "ops/s"],
                    <<>>)

ScenarioTreatment ==
    BenchmarkResult("X", "thrpt", 1, 10,
                    [score |-> 120, scoreError |-> 5, scoreUnit |-> "ops/s"],
                    <<>>)

ScenarioA == Compared /\ baseline = ScenarioBaseline /\ treatment = ScenarioTreatment

\* the result of scenario A but for its confidence level: 20.0, 1.2,
\* improved, t about 2.83 (2.825 <= t < 2.835), significant
ScenarioAResult ==
    /\ Returned(comparison)
    /\ comparison.ret.improvement_percent = Rat(20, 1)
    /\ comparison.ret.speedup = Rat(12, 10)
    /\ comparison.ret.status = "improved"
    /\ comparison.ret.statistical_significance.t_statistic # None
    /\ TGeq(comparison.ret.statistical_significance.t_statistic, <<2825, 1000>>)
    /\ ~TGeq(comparison.ret.statistical_significance.t_statistic, <<2835, 1000>>)
    /\ comparison.ret.statistical_significance.is_significant = True

\* C8 as stated: scenario A gives improvement_percent 20.0, speedup 1.2,
\* improved, t about 2.83, confidence_level "p < 0.05", is_significant true.
C8_ScenarioA_P05 ==
    ScenarioA =>
        /\ ScenarioAResult
        /\ comparison.ret.statistical_significance.confidence_level = "p < 0.05"

\* C8 amended: scenario A gives improvement_percent 20.0, speedup 1.2,
\* improved, t about 2.83, is_significant true, and confidence_level
\* "p < 0.01", since 2.83 >= 2.750.
C8_ScenarioA_P01 ==
    ScenarioA =>
        /\ ScenarioAResult
        /\ comparison.ret.statistical_significance.confidence_level = "p < 0.01"

C8_Witness == ScenarioA /\ Returned(comparison)

\* C9: for baseline.score # 0, a returned result has higher_is_better true
\* exactly when baseline.mode is 'thrpt' or 'Throughput' (treatment.mode is
\* not consulted); then improvement_percent = (t - b) / b * 100 and
\* speedup = t / b; otherwise improvement_percent = (b - t) / b * 100 and
\* speedup = b / t.
C9_DeltaFormulas ==
    (Compared /\ Returned(comparison) /\ score(baseline) # 0) =>
        LET b == score(baseline)
            t == score(treatment)
        IN  /\ comparison.ret.higher_is_better = ThroughputMode
            /\ ThroughputMode =>
                  /\ comparison.ret.improvement_percent = Rat((t - b) * 100, b)
                  /\ comparison.ret.speedup = Rat(t, b)
            /\ ~ThroughputMode =>
                  /\ t # 0
                  /\ comparison.ret.improvement_percent = Rat((b - t) * 100, b)
                  /\ comparison.ret.speedup = Rat(b, t)

\* avgt 100 -> 120 against a treatment record of a throughput mode:
\* -20.0, 5/6, regressed
C9_Witness ==
    /\ Compared /\ Returned(comparison)
    /\ baseline.mode = "avgt" /\ treatment.mode = "thrpt"
    /\ score(baseline) = 100 /\ score(treatment) = 120
    /\ comparison.ret.higher_is_better = FALSE
    /\ comparison.ret.improvement_percent = Rat(-20, 1)
    /\ comparison.ret.speedup = Rat(5, 6)
    /\ comparison.ret.status = "regressed"

\* C10: the status of a returned result is one of improved, regressed,
\* unchanged, baseline_zero; it is baseline_zero iff baseline.score = 0;
\* otherwise improved iff improvement_percent > 0, regressed iff < 0,
\* unchanged iff = 0, which happens exactly when the two scores are equal.
C10_Status ==
    (Compared /\ Returned(comparison)) =>
        LET r == comparison.ret
        IN  /\ r.status \in {"improved", "regressed", "unchanged", "baseline_zero"}
            /\ r.status = "baseline_zero" <=> score(baseline) = 0
            /\ score(baseline) # 0 =>
                  /\ r.status = "improved" <=> RatGt(r.improvement_percent, Zero)
                  /\ r.status = "regressed" <=> RatLt(r.improvement_percent, Zero)
                  /\ r.status = "unchanged" <=> r.improvement_percent = Zero
                  /\ r.status = "unchanged" <=> score(treatment) = score(baseline)

\* equal non-zero scores: unchanged
C10_Witness ==
    /\ Compared /\ Returned(comparison)
    /\ score(baseline) # 0 /\ score(treatment) = score(baseline)
    /\ comparison.ret.status = "unchanged"
    /\ comparison.ret.improvement_percent = Zero

-----------------------------------------------------------------------------
(* Symmetry (specification SpecSymmetry) *)

Sign(x) == IF x[1] > 0 THEN 1 ELSE IF x[1] < 0 THEN -1 ELSE 0

\* both runs made on records of one mode, neither on a zero baseline
SwappedPair ==
    /\ pc = "swapped"
    /\ baseline.mode = treatment.mode
    /\ score(baseline) # 0 /\ score(treatment) # 0

\* C11: for two records with the same mode where neither run takes the
\* baseline_zero branch, the run with the records exchanged has an
\* improvement_percent of the opposite sign (zero stays zero) and a speedup
\* equal to 1 / speedup of the original run.
C11_Symmetry ==
    SwappedPair =>
        /\ Returned(comparison) /\ Returned(swapped)
        /\ Sign(swapped.ret.improvement_percent) =
              0 - Sign(comparison.ret.improvement_percent)
        /\ swapped.ret.speedup =
              Rat(comparison.ret.speedup[2], comparison.ret.speedup[1])

\* a lower-is-better pair 100 -> 120 and its exchange: regressed with 5/6,
\* improved with 6/5
C11_Witness ==
    /\ SwappedPair
    /\ baseline.mode = "avgt"
    /\ score(baseline) = 100 /\ score(treatment) = 120
    /\ Returned(comparison) /\ Returned(swapped)
    /\ comparison.ret.speedup = Rat(5, 6)
    /\ swapped.ret.speedup = Rat(6, 5)
    /\ IsNeg(comparison.ret.improvement_percent)
    /\ IsPos(swapped.ret.improvement_percent)

-----------------------------------------------------------------------------
(* Match keys (specification SpecKeys) *)

\* the one record of each side
OnlyBaseline == baseline_results[1].results[1]
OnlyTreatment == treatment_results[1].results[1]

\* a params dict as a mapping: the set of its items
ParamsMapping(r) == {r.params[i] : i \in DOMAIN r.params}

SameIdentity(b, t) ==
    /\ b.benchmark = t.benchmark
    /\ b.mode = t.mode
    /\ b.threads = t.threads
    /\ ParamsMapping(b) = ParamsMapping(t)

Paired == Returned(comparison_data) /\ Len(comparison_data.ret) = 1

\* C12: a baseline record and a treatment record are paired if and only if
\* their (benchmark, mode, threads, params) are equal; records that differ
\* in one of the four never get the same match key.
C12_PairedIffSameIdentity ==
    Built =>
        /\ Paired <=> SameIdentity(OnlyBaseline, OnlyTreatment)
        /\ MatchKey(OnlyBaseline) = MatchKey(OnlyTreatment)
              <=> SameIdentity(OnlyBaseline, OnlyTreatment)

\* C13: two records with identical benchmark, mode, threads and the same
\* params mapping get the same match key whatever the insertion order of
\* the params keys, and are matched; so are two records with empty params.
C13_KeyIgnoresInsertionOrder ==
    (Built /\ SameIdentity(OnlyBaseline, OnlyTreatment)) =>
        /\ MatchKey(OnlyBaseline) = MatchKey(OnlyTreatment)
        /\ Paired
        /\ comparison_data.ret[1].baseline_details.params = OnlyBaseline.params
        /\ comparison_data.ret[1].treatment_details.params = OnlyTreatment.params

\* scenario E: params {a: "1", b: "2"} against {b: "2", a: "1"}
C13_Witness ==
    /\ Built /\ Paired
    /\ OnlyBaseline.params = <<<<"a", "1">>, <<"b", "2">>>>
    /\ OnlyTreatment.params = <<<<"b", "2">>, <<"a", "1">>>>
    /\ OnlyBaseline.benchmark = OnlyTreatment.benchmark
    /\ OnlyBaseline.mode = OnlyTreatment.mode
    /\ OnlyBaseline.threads = OnlyTreatment.threads

-----------------------------------------------------------------------------
(* The builder's output (specifications SpecBuild and SpecTwice) *)

\* the match key of the pair a Comparison Record was built from
RecordKey(data) ==
    MatchKey([benchmark |-> data.benchmark, mode |-> data.mode,
              threads |-> data.threads,
              params |-> data.baseline_details.params])

KeysOf(results) ==
    {MatchKey(AllResults(results)[i]) : i \in DOMAIN AllResults(results)}

SharedKeys == KeysOf(baseline_results) \cap KeysOf(treatment_results)

\* the positions, in processing order, of the records of a side with key k
Positions(results, k) ==
    {i \in DOMAIN AllResults(results) : MatchKey(AllResults(results)[i]) = k}

Duplicated(results, k) == Cardinality(Positions(results, k)) > 1

\* the record with key k that is processed last
LastProcessed(results, k) ==
    AllResults(results)[CHOOSE i \in Positions(results, k) :
                            \A j \in Positions(results, k) : j <= i]

RecordsFor(out, k) == {i \in DOMAIN out : RecordKey(out[i]) = k}

\* one record for key k, built from the last record of each side
LastWriteWins(out, k) ==
    /\ Cardinality(RecordsFor(out, k)) = 1
    /\ \A i \in RecordsFor(out, k) :
          /\ out[i].baseline_score = score(LastProcessed(baseline_results, k))
          /\ out[i].treatment_score = score(LastProcessed(treatment_results, k))

\* C14: when several records of one side have the same match key,
\* create_comparison_data raises no error, and exactly one Comparison Record
\* is emitted for that key, with the score of the record processed last.
C14_LastWriteWins ==
    (Built /\ \E k \in SharedKeys :
                Duplicated(baseline_results, k) \/ Duplicated(treatment_results, k)) =>
        /\ Returned(comparison_data)
        /\ \A k \in SharedKeys : LastWriteWins(comparison_data.ret, k)

\* what is left of C14 whenever the call returns
LastWriteWinsWhenReturned ==
    (Built /\ Returned(comparison_data)) =>
        \A k \in SharedKeys : LastWriteWins(comparison_data.ret, k)

\* C15: the output holds exactly one Comparison Record for each match key
\* present on both sides and none for a key of one side only; its length is
\* the size of the intersection, and it is empty when the intersection is.
C15_OnePerSharedKey ==
    Built =>
        /\ Returned(comparison_data)
        /\ Len(comparison_data.ret) = Cardinality(SharedKeys)
        /\ \A k \in SharedKeys :
              Cardinality(RecordsFor(comparison_data.ret, k)) = 1
        /\ \A i \in DOMAIN comparison_data.ret :
              RecordKey(comparison_data.ret[i]) \in SharedKeys

\* what is left of C15 whenever the call returns
OnePerSharedKeyWhenReturned ==
    (Built /\ Returned(comparison_data)) =>
        /\ Len(comparison_data.ret) = Cardinality(SharedKeys)
        /\ \A k \in SharedKeys :
              Cardinality(RecordsFor(comparison_data.ret, k)) = 1

Range(seq) == {seq[i] : i \in DOMAIN seq}

\* C16: two calls on identical inputs end the same way, and when they return
\* their outputs are equal as sets of Comparison Records.
C16_Idempotent ==
    pc = "rebuilt" =>
        /\ Returned(comparison_data) <=> Returned(comparison_data_again)
        /\ Returned(comparison_data) =>
              /\ Range(comparison_data.ret) = Range(comparison_data_again.ret)
              /\ Len(comparison_data.ret) = Len(comparison_data_again.ret)

\* two shared keys, compared in one order by the first call and in the other
\* order by the second
C16_Witness ==
    /\ pc = "rebuilt"
    /\ Returned(comparison_data) /\ Returned(comparison_data_again)
    /\ Len(comparison_data.ret) = 2
    /\ comparison_data.ret # comparison_data_again.ret

-----------------------------------------------------------------------------
(* The tiers of calculate_statistical_significance (specification SpecTiers)
   and its degenerate guard (specification Spec) *)

EnoughIterations ==
    baseline.measurement_iterations > 1 /\ treatment.measurement_iterations > 1

ScoreDifference == Abs(score(treatment) - score(baseline))

\* pooled_se squared, written out from the claim
PooledSquare ==
    score_error(baseline) * score_error(baseline)
        + score_error(treatment) * score_error(treatment)

\* t >= n / d for t = ScoreDifference / sqrt(PooledSquare), both sides squared
TAtLeast(n, d) ==
    FracGeq(ScoreDifference * ScoreDifference, PooledSquare, n * n, d * d)

ExpectedTier ==
    IF TAtLeast(2750, 1000) THEN <<True, "p < 0.01">>
    ELSE IF TAtLeast(2042, 1000) THEN <<True, "p < 0.05">>
    ELSE <<False, "p >= 0.05">>

\* the pairs of TierRecords whose t statistic is exactly a critical value
OnBoundary01 ==
    ScoreDifference = 11 /\ PooledSquare = 16

OnBoundary05 ==
    ScoreDifference = 1021 /\ PooledSquare = 250000

\* C19: with both measurement_iterations > 1 and pooled_se non-zero,
\* calculate_statistical_significance returns t = |difference| / pooled_se
\* and the tier of t: t >= 2.750 significant with "p < 0.01", 2.042 <= t <
\* 2.750 significant with "p < 0.05", t < 2.042 not significant with
\* "p >= 0.05"; a t equal to 2.750 or to 2.042 counts as significant.
C19_Tiers ==
    (Classified /\ EnoughIterations /\ PooledSquare # 0) =>
        /\ Returned(significance)
        /\ significance.ret.t_statistic
              = Rat(ScoreDifference * ScoreDifference, PooledSquare)
        /\ significance.ret.insufficient_data = FALSE
        /\ <<significance.ret.is_significant,
             significance.ret.confidence_level>> = ExpectedTier
        /\ OnBoundary01 =>
              /\ significance.ret.is_significant = True
              /\ significance.ret.confidence_level = "p < 0.01"
        /\ OnBoundary05 =>
              /\ significance.ret.is_significant = True
              /\ significance.ret.confidence_level = "p < 0.05"

\* a pair with t = 2.042 exactly, from two non-zero errors
C19_Witness ==
    /\ Classified /\ EnoughIterations
    /\ OnBoundary05
    /\ score_error(baseline) = 300 /\ score_error(treatment) = 400
    /\ Returned(significance)
    /\ significance.ret.confidence_level = "p < 0.05"

\* every tier and both critical values are met
C19_BoundaryWitness01 ==
    Classified /\ EnoughIterations /\ OnBoundary01 /\ Returned(significance)
        /\ significance.ret.confidence_level = "p < 0.01"

C19_MiddleTierWitness ==
    Classified /\ EnoughIterations /\ ~OnBoundary05 /\ Returned(significance)
        /\ significance.ret.confidence_level = "p < 0.05"

C19_NotSignificantWitness ==
    Classified /\ EnoughIterations /\ PooledSquare # 0
        /\ ScoreDifference # 0 /\ Returned(significance)
        /\ significance.ret.confidence_level = "p >= 0.05"

\* C20: with both measurement_iterations > 1 and both score errors 0,
\* calculate_statistical_significance returns is_significant false,
\* confidence_level "N/A", t_statistic 0 and insufficient_data false,
\* whatever the score difference, and divides by nothing.
C20_DegenerateGuard ==
    (Classified /\ EnoughIterations
        /\ score_error(baseline) = 0 /\ score_error(treatment) = 0) =>
        /\ Returned(significance)
        /\ significance.ret = [is_significant |-> False,
                               confidence_level |-> "N/A",
                               t_statistic |-> Zero,
                               insufficient_data |-> FALSE]

\* the largest score difference of the model, with both errors 0
C20_Witness ==
    /\ Classified /\ EnoughIterations
    /\ score_error(baseline) = 0 /\ score_error(treatment) = 0
    /\ "scoreError" \in DOMAIN baseline.primary_metric
    /\ score(baseline) = 0 /\ score(treatment) = 120
    /\ Returned(significance)
    /\ significance.ret.confidence_level = "N/A"

-----------------------------------------------------------------------------
(* The Loader (specification SpecLoad) *)

\* the JSON objects of the baseline directory that lack a key
PartialItems ==
    IF ~json_data.exists THEN {}
    ELSE UNION {{f.data.items[i].fields :
                    i \in {j \in DOMAIN f.data.items :
                              /\ f.data.items[j].kind = "object"
                              /\ DOMAIN f.data.items[j].fields # JsonKeys}} :
                f \in {json_data.files[n] : n \in {m \in DOMAIN json_data.files :
                          json_data.files[m].data.kind = "array"}}}

\* C18: a JSON item that lacks a field of the Measurement Record is not
\* turned into a record that reaches create_comparison_data.
C18_NoPartialRecordReachesEngine ==
    Built =>
        \A item \in PartialItems :
            ParseItem(item) \notin Range(AllResults(baseline_results))

-----------------------------------------------------------------------------
(* The report (specification SpecReport) *)

Reported == pc \in {"reported", "filtered"} /\ report.written

Filtered == pc = "filtered" /\ report.written

\* a row of originalData whose significance is indeterminate
Indeterminate(row) ==
    row.insufficient_data = "true" /\ row.is_significant = "null"

\* the static table and the dynamic table show "?" for an indeterminate row
IndeterminateShownAsQuestionMark ==
    Reported =>
        /\ \A i \in DOMAIN report.originalData :
              Indeterminate(report.originalData[i]) =>
                  report.static_table[i].ss = "?"
        /\ pc = "filtered" =>
              \A j \in DOMAIN report.filteredData :
                  Indeterminate(report.filteredData[j]) =>
                      report.table[j].ss = "?"

\* C17: a record whose significance is indeterminate is shown as "?" in the
\* static and in the dynamic table, and among the significance filters only
\* 'Insufficient Data' selects it: 'Not Significant' never does.
C17_IndeterminateKeptDistinct ==
    /\ IndeterminateShownAsQuestionMark
    /\ Filtered =>
          \A j \in DOMAIN report.filteredData :
              Indeterminate(report.filteredData[j]) =>
                  report.filters.significance \in {"", "insufficient_data"}

-----------------------------------------------------------------------------
(* Further properties of calculate_statistical_significance (specifications
   SpecIterations, Spec and SpecExchange) *)

\* C21: for two pairs with the same scores and score errors whose
\* measurement_iterations all exceed 1 but differ between the pairs,
\* calculate_statistical_significance returns identical results.
C21_IterationCountsIrrelevant ==
    pc = "reclassified" => significance_again = significance

\* t = 3 (difference 3, errors 1 and 0), significant at every iteration
\* count, although Student's critical value for df = 2 is 4.303
C21_Witness ==
    /\ pc = "reclassified"
    /\ baseline.measurement_iterations = 2 /\ treatment.measurement_iterations = 2
    /\ ScoreDifference = 3 /\ PooledSquare = 1
    /\ Returned(significance_again)
    /\ significance_again.ret.is_significant = True

\* t_statistic >= 2.042, for a t_statistic kept as the fraction of its square
AtLeastCritical05(t_statistic) ==
    FracGeq(t_statistic[1], t_statistic[2], 2042 * 2042, 1000 * 1000)

\* C26: in every result of calculate_statistical_significance,
\* insufficient_data is true iff is_significant is null iff t_statistic is
\* null iff confidence_level is "?"; is_significant is true only when
\* t_statistic >= 2.042 and confidence_level is "p < 0.01" or "p < 0.05";
\* and a t_statistic that is not null is >= 0.
C26_ResultConsistent ==
    Classified =>
        /\ Returned(significance)
        /\ LET r == significance.ret
           IN  /\ r.insufficient_data <=> r.is_significant = None
               /\ r.insufficient_data <=> r.t_statistic = None
               /\ r.insufficient_data <=> r.confidence_level = "?"
               /\ r.is_significant = True =>
                     /\ r.t_statistic # None
                     /\ AtLeastCritical05(r.t_statistic)
                     /\ r.confidence_level \in {"p < 0.01", "p < 0.05"}
               /\ r.t_statistic # None => r.t_statistic[1] >= 0

\* an indeterminate result
C26_Witness ==
    /\ Classified /\ Returned(significance)
    /\ baseline.measurement_iterations = 1
    /\ treatment.measurement_iterations = 10
    /\ significance.ret.insufficient_data
    /\ significance.ret.is_significant = None

C26_SignificantWitness ==
    /\ Classified /\ Returned(significance)
    /\ significance.ret.is_significant = True
    /\ significance.ret.confidence_level = "p < 0.05"

\* C27: the result of calculate_statistical_significance for (b, t) equals
\* the result for (t, b).
C27_SignificanceSymmetric ==
    pc = "exchanged" => significance_again = significance

\* two records that differ in score, error and iteration count
C27_Witness ==
    /\ pc = "exchanged"
    /\ score(baseline) = 100 /\ score(treatment) = 120
    /\ score_error(baseline) = 5 /\ score_error(treatment) = 0
    /\ baseline.measurement_iterations = 2
    /\ treatment.measurement_iterations = 10
    /\ Returned(significance_again)
    /\ significance_again.ret.is_significant = True

-----------------------------------------------------------------------------
(* The fields of a Comparison Record (specification SpecUnits) *)

\* the fields that data takes from the baseline record b and the treatment
\* record t of its pair
BuiltFrom(data, b, t) ==
    /\ data.benchmark = b.benchmark
    /\ data.mode = b.mode
    /\ data.threads = b.threads
    /\ data.unit = score_unit(b)
    /\ data.baseline_score = score(b)
    /\ data.baseline_error = score_error(b)
    /\ data.treatment_score = score(t)
    /\ data.treatment_error = score_error(t)

\* C22: in every Comparison Record emitted by create_comparison_data,
\* benchmark, mode, threads and unit are those of the baseline record of the
\* pair, baseline_score and baseline_error are the baseline record's score
\* and score_error, and treatment_score and treatment_error the treatment
\* record's.
C22_FieldsFromPair ==
    (Built /\ Returned(comparison_data)) =>
        \A i \in DOMAIN comparison_data.ret :
            \E k \in SharedKeys :
                BuiltFrom(comparison_data.ret[i],
                          LastProcessed(baseline_results, k),
                          LastProcessed(treatment_results, k))

\* a pair whose two records differ in benchmark, mode, unit, score and error
C22_Witness ==
    /\ Built /\ Returned(comparison_data)
    /\ Len(comparison_data.ret) = 1
    /\ LET b == AllResults(baseline_results)[1]
           t == AllResults(treatment_results)[1]
       IN  /\ b.benchmark = "X_Y" /\ t.benchmark = "X"
           /\ score_unit(b) = "ops/ms" /\ score_unit(t) = "ops/s"
           /\ score(b) # score(t) /\ score_error(b) # score_error(t)
           /\ comparison_data.ret[1].unit = "ops/ms"
           /\ comparison_data.ret[1].benchmark = "X_Y"

\* C25: every pair that create_comparison_data compares has the same score
\* unit on both sides.
C25_PairsShareUnit ==
    Built =>
        \A k \in SharedKeys :
            score_unit(LastProcessed(baseline_results, k))
                = score_unit(LastProcessed(treatment_results, k))

-----------------------------------------------------------------------------
(* Frame properties of the engine (specifications SpecPure and SpecAlias) *)

InputsUnchanged ==
    /\ baseline' = baseline
    /\ treatment' = treatment
    /\ baseline_results' = baseline_results
    /\ treatment_results' = treatment_results

\* a second call answers as the first did
SameAnswer ==
    /\ Returned(comparison_data_again') <=> Returned(comparison_data)
    /\ Returned(comparison_data) =>
          Range(comparison_data_again'.ret) = Range(comparison_data.ret)

C23_BuildWitness ==
    /\ pc = "rebuilt"
    /\ Returned(comparison_data_again)
    /\ Len(comparison_data_again.ret) = 1

\* C24: a later change to a source Measurement Record's params,
\* secondary_metrics or jvm_args does not change a Comparison Record already
\* built from it.
C24_RecordIndependentOfSource ==
    [][pc' = "changed" => comparison_data' = comparison_data]_vars

-----------------------------------------------------------------------------
(* All-or-nothing loading (specification SpecLoad) *)

Loaded == pc = "loaded"

\* reading the file or processing one of its items raises
RaisesInside(data) ==
    \/ data.kind = "malformed"
    \/ \E i \in DOMAIN data.items : data.items[i].kind # "object"

\* one record for each item of the file, in order
AllRecords(data) ==
    [i \in DOMAIN data.items |-> ParseItem(data.items[i].fields)]

\* the files of the directory whose record list is not empty, in order
RECURSIVE NonEmptyFiles(_, _)
NonEmptyFiles(files, lists) ==
    IF files = <<>> THEN <<>>
    ELSE IF Head(lists).ret = <<>> THEN NonEmptyFiles(Tail(files), Tail(lists))
    ELSE <<File(Head(files).name, Head(lists).ret)>>
            \o NonEmptyFiles(Tail(files), Tail(lists))

\* C28: parse_jmh_json returns the empty list, never a prefix of the file's
\* records, if reading the file or processing one of its items raises;
\* load_benchmark_results leaves out every file whose record list is empty,
\* so every value of its result is a non-empty list, and it returns an empty
\* mapping when the directory does not exist.
C28_AllOrNothing ==
    Loaded =>
        /\ ~json_data.exists => baseline_results = <<>>
        /\ json_data.exists =>
              /\ Returned(parsed)
              /\ \A i \in DOMAIN json_data.files :
                    /\ Returned(parsed.ret[i])
                    /\ RaisesInside(json_data.files[i].data) =>
                          parsed.ret[i].ret = <<>>
                    /\ ~RaisesInside(json_data.files[i].data) =>
                          parsed.ret[i].ret = AllRecords(json_data.files[i].data)
              /\ baseline_results = NonEmptyFiles(json_data.files, parsed.ret)
        /\ \A f \in DOMAIN baseline_results :
              baseline_results[f].results # <<>>

\* a file whose second item raises after a first record was built, next to
\* a file that loads
C28_Witness ==
    /\ Loaded
    /\ json_data.exists
    /\ Len(json_data.files) = 2
    /\ json_data.files[1].data.kind = "array"
    /\ json_data.files[2].data.kind = "array"
    /\ Len(json_data.files[1].data.items) = 1
    /\ json_data.files[1].data.items[1].kind = "scalar"
    /\ Len(baseline_results) = 1
    /\ baseline_results[1].name = "2.json"

C28_PrefixWitness ==
    /\ Loaded
    /\ json_data.exists
    /\ Len(json_data.files) = 1
    /\ json_data.files[1].data.kind = "array"
    /\ Len(json_data.files[1].data.items) = 2
    /\ json_data.files[1].data.items[1].kind = "object"
    /\ json_data.files[1].data.items[2].kind = "scalar"
    /\ baseline_results = <<>>

-----------------------------------------------------------------------------
(* parse_details_file (specification SpecDetails) *)

DetailsParsed == pc = "details_parsed" /\ details_file.kind = "text"

\* the lines as the loop sees them
StrippedLine(i) == rstrip(details_file.lines[i])

\* the lines whose first character is '-'
Headers ==
    {i \in DOMAIN details_file.lines :
        StrippedLine(i) # <<>> /\ StrippedLine(i)[1] = "-"}

\* the name of the section that the header at line i opens
SectionName(i) ==
    LET name == strip(Tail(StrippedLine(i)))
    IN  IF name # <<>> /\ name[Len(name)] = ":"
        THEN strip(SubSeq(name, 1, Len(name) - 1))
        ELSE name

\* the first line after the section that the header at line i opens
SectionEnd(i) ==
    IF \E j \in Headers : j > i
    THEN CHOOSE j \in Headers : j > i /\ \A h \in Headers : h > i => j <= h
    ELSE Len(details_file.lines) + 1

\* the text of the lines between the header at line i and the next header
SectionText(i) ==
    strip(join([j \in 1..(SectionEnd(i) - i - 1) |-> StrippedLine(i + j)]))

\* the last header with a given name
LastHeader(name) ==
    CHOOSE i \in Headers :
        SectionName(i) = name /\ \A h \in Headers : SectionName(h) = name => h <= i

Keys(details) == {details[i][1] : i \in DOMAIN details}

\* the start positions of the lines of a text
LineStarts(text) ==
    {i \in DOMAIN text : i = 1 \/ text[i - 1] = "\n"}

\* the sections returned are those of the headers with a non-empty name,
\* each once, with the text that follows the last header of that name
SectionsOfHeaders ==
    DetailsParsed =>
        /\ Returned(experiment_details)
        /\ LET details == experiment_details.ret
           IN  /\ Keys(details) = {SectionName(i) : i \in Headers} \ {<<>>}
               /\ Cardinality(Keys(details)) = Len(details)
               /\ \A n \in DOMAIN details :
                     /\ details[n][1] # <<>>
                     /\ details[n][2] = SectionText(LastHeader(details[n][1]))

\* C30: every line starting with '-' closes the current section and opens a
\* new one, so that no section's content contains a line starting with '-';
\* lines before the first header are discarded; a later section with the
\* same name replaces the earlier one; a section with an empty name is
\* dropped with its content lines; every key returned is non-empty.
C30_DetailsSections ==
    /\ SectionsOfHeaders
    /\ DetailsParsed =>
          \A n \in DOMAIN experiment_details.ret :
              \A i \in LineStarts(experiment_details.ret[n][2]) :
                  experiment_details.ret[n][2][i] # "-"

\* C30 as the code has it: the text of a section is stripped as a whole, so
\* its first line may start with '-' when the line had leading blanks in the
\* file; no later line of it does.
C30_DetailsSectionsStripped ==
    /\ SectionsOfHeaders
    /\ DetailsParsed =>
          \A n \in DOMAIN experiment_details.ret :
              \A i \in LineStarts(experiment_details.ret[n][2]) \ {1} :
                  experiment_details.ret[n][2][i] # "-"

\* lines before the first header, a section replaced by a later one of the
\* same name, and a section without a name
C30_Witness ==
    /\ DetailsParsed
    /\ details_file.lines = <<<<"-", "a">>, <<"b">>, <<"-", "a", ":">>>>
    /\ experiment_details.ret = <<<<<<"a">>, <<>>>>>>

C30_DroppedWitness ==
    /\ DetailsParsed
    /\ details_file.lines = <<<<"a">>, <<"-">>, <<"b">>>>
    /\ experiment_details.ret = <<>>

-----------------------------------------------------------------------------
(* main (specification SpecMain) *)

\* the guards of main, from the directories it is run on
BaselineDirExists == json_data.exists
TreatmentDirExists == treatment_dir.exists
BaselineLoadNonEmpty == load_benchmark_results(json_data) # <<>>
TreatmentLoadNonEmpty == load_benchmark_results(treatment_dir) # <<>>
SomeRecord == Returned(comparison_data) /\ comparison_data.ret # <<>>

\* main has not started to load
NothingLoaded ==
    /\ parsed = NotCalled
    /\ baseline_results = <<>>
    /\ treatment_results = <<>>

\* create_comparison_data and generate_html_report have not been called
NeverCompared == comparison_data = NotCalled /\ report = None

\* C29: main writes the report only after every guard has passed, in the
\* order baseline directory, treatment directory, baseline load, treatment
\* load, at least one record; when a guard fails main returns without
\* calling generate_html_report, and generate_html_report writes no file
\* when it is given an empty list.
C29_ReportOnlyAfterGuards ==
    /\ pc = "no_baseline_dir" =>
          ~BaselineDirExists /\ NothingLoaded /\ NeverCompared
    /\ pc = "no_treatment_dir" =>
          /\ BaselineDirExists /\ ~TreatmentDirExists
          /\ NothingLoaded /\ NeverCompared
    /\ pc = "no_baseline_results" =>
          /\ BaselineDirExists /\ TreatmentDirExists
          /\ ~BaselineLoadNonEmpty
          /\ NeverCompared
    /\ pc = "no_treatment_results" =>
          /\ BaselineDirExists /\ TreatmentDirExists
          /\ BaselineLoadNonEmpty /\ ~TreatmentLoadNonEmpty
          /\ NeverCompared
    /\ pc = "no_matches" =>
          /\ BaselineDirExists /\ TreatmentDirExists
          /\ BaselineLoadNonEmpty /\ TreatmentLoadNonEmpty
          /\ Returned(comparison_data) /\ comparison_data.ret = <<>>
          /\ report = None
    /\ pc = "crashed" => report = None
    /\ pc = "done" =>
          /\ BaselineDirExists /\ TreatmentDirExists
          /\ BaselineLoadNonEmpty /\ TreatmentLoadNonEmpty
          /\ SomeRecord
          /\ report = generate_html_report(comparison_data.ret)
          /\ report.written
    /\ pc = "reported" => comparison_data.ret = <<>> /\ ~report.written
    /\ pc \notin {"done", "reported"} => report = None
    /\ ~(BaselineDirExists /\ TreatmentDirExists /\ BaselineLoadNonEmpty
            /\ TreatmentLoadNonEmpty /\ SomeRecord) =>
          (report = None \/ ~report.written)

\* the report is written
C29_Witness == pc = "done" /\ report.written

\* main returns at each guard, and the empty list writes nothing
C29_NoBaselineDirWitness == pc = "no_baseline_dir" /\ ~treatment_dir.exists

C29_NoTreatmentDirWitness == pc = "no_treatment_dir"

C29_NoBaselineResultsWitness ==
    pc = "no_baseline_results" /\ treatment_results = <<>>

C29_NoTreatmentResultsWitness == pc = "no_treatment_results"

C29_NoMatchesWitness == pc = "no_matches"

C29_EmptyListWitness == pc = "reported" /\ ~report.written

====
